---- MODULE Spec2Model ----
(***************************************************************************)
(* CampusConnect: the hostel, library, hr and finance services as state    *)
(* machines over one shared document store.  Every HTTP handler is a       *)
(* sequence of store round-trips; each round-trip (with the local code     *)
(* around it) is one atomic action, and handlers of concurrent requests    *)
(* interleave at the round-trips.  Any store call may fail (the handler    *)
(* then answers 500 through map_err(ErrorInternalServerError)?).           *)
(***************************************************************************)
EXTENDS Integers, Sequences, FiniteSets, TLC

\* ------------------------------------------------------------------ bounds
MaxRequests == 4      \* requests a behaviour serves in all
MaxWorkers == 2       \* requests in flight at the same time
MaxIssueId == 2       \* largest issue id a return request names
MaxRooms == 2         \* rooms the rooms collection may hold
MaxCapacity == 2      \* largest capacity / total_copies a request asks for
MaxFailures == 1      \* store calls that may fail in one behaviour
MaxBooks == 1         \* books the books collection may hold
MaxTime == 2          \* clock ticks a behaviour spans
TicksPerDay == 2      \* clock ticks in one day (a day is not the clock's unit)
MaxDays == 1          \* largest loan period (days) a request asks for
MaxLeaves == 2        \* leave requests the leave_requests collection may hold
MaxFees == 1          \* fees the fees collection may hold
MaxFaculty == 2       \* faculty members the faculty collection may hold
MaxAmount == 1        \* largest salary / allowance / deduction / item amount
MaxItems == 1         \* most items an invoice request carries
MaxIssueTime == 1     \* latest clock reading at which the overdue loan was issued
MaxLateDays == 3      \* most whole days the overdue loan is returned late
MaxSummedItems == 2   \* most items of an invoice when invoices alone are served

\* ----------------------------------------------------------- program constants
FinePerDay == 5

\* ------------------------------------------------------------------ inputs
Campuses == {"campusA", "campusB"}
Students == {"s1", "s2"}
Borrowers == {"s1"}
Employees == {"e1"}
Payers == {"s1"}
\* An Authorization header: a token the validator accepts carries its campus;
\* "invalid" stands for a missing header or a token decode() rejects.
Tokens == Campuses \cup {"invalid"}
\* Identifier strings of a request: n >= 1 is the 24-hex-digit text of the
\* n-th ObjectId the collection hands out (whether or not a document with it
\* exists yet); 0 is a string ObjectId::parse_str rejects.
IdInputs(max) == 0..max
\* capacity / total_copies are i32 taken from the request body unchecked.
CapacityInputs == 0..MaxCapacity
DaysInputs == 0..MaxDays
LeaveStatusInputs == {"pending", "approved", "rejected", "cancelled"}
\* salary, allowances, deductions and item amounts are f64 taken from the
\* request body unchecked; the model draws them from small integers.
AmountInputs == 0..MaxAmount

\* course_code, username and password are strings of the request body; "nul"
\* stands for a password the bcrypt functions reject.
Courses == {"CS101", "MA102"}
Usernames == {"u1", "u2"}
Passwords == {"pw1", "pw2", "nul"}

Workers == 1..MaxWorkers

VARIABLES
    rooms,              \* collection "rooms": sequence, _id = index
    room_allocations,   \* collection "room_allocations"
    books,              \* collection "books"
    book_issues,        \* collection "book_issues"
    leave_requests,     \* collection "leave_requests"
    maintenance_requests, \* collection "maintenance_requests"
    faculty,            \* collection "faculty"
    payroll,            \* collection "payroll"
    fees,               \* collection "fees"
    payments,           \* collection "payments"
    invoices,           \* collection "invoices"
    enrollments,        \* collection "enrollments" (academics service)
    users,              \* collection "users" (auth service)
    update_filter,      \* the fields the filter of the last update_one names
    now,                \* Utc::now(), in clock ticks
    pc,                 \* per worker: "idle", the next store call, or "done"
    op,                 \* per worker: the handler serving its request
    req,                \* per worker: the request (token and body)
    local,              \* per worker: the handler's local variables
    result,             \* per worker: the response to its last request
    body,               \* per worker: the JSON body of that response
    round_trips,        \* per worker: store round-trips its request has completed
    served,             \* requests accepted so far
    failures,           \* store calls that have failed so far
    credited            \* history: per book_issues record, the $inc +1 applied for it

store == <<rooms, room_allocations, books, book_issues, leave_requests>>
\* The collections of the hostel and library services (with the clock the
\* library reads), and the collections of the finance and payroll handlers.
pools == <<rooms, room_allocations, books, book_issues, credited, now>>
ledgers == <<faculty, payroll, fees, payments, invoices>>
\* The collections of the academics and auth handlers.
registry == <<enrollments, users>>
\* Every collection of the four services.
database == <<rooms, room_allocations, maintenance_requests, books, book_issues,
              leave_requests, faculty, payroll, fees, payments, invoices>>
vars == <<rooms, room_allocations, books, book_issues, leave_requests,
          maintenance_requests, faculty, payroll, fees, payments, invoices,
          enrollments, users, update_filter, now, pc, op, req, local, result, body, round_trips,
          served, failures, credited>>

NoReq == [token |-> "-"]
NoLocal == [campus_id |-> "-"]
\* A response whose body carries no value of the store (a message or an error).
NoBody == [message |-> "-"]

Init ==
    /\ rooms = <<>>
    /\ room_allocations = <<>>
    /\ books = <<>>
    /\ book_issues = <<>>
    /\ leave_requests = <<>>
    /\ maintenance_requests = <<>>
    /\ faculty = <<>>
    /\ payroll = <<>>
    /\ fees = <<>>
    /\ payments = <<>>
    /\ invoices = <<>>
    /\ enrollments = <<>>
    /\ users = <<>>
    /\ update_filter = {}
    /\ now = 0
    /\ pc = [p \in Workers |-> "idle"]
    /\ op = [p \in Workers |-> "-"]
    /\ req = [p \in Workers |-> NoReq]
    /\ local = [p \in Workers |-> NoLocal]
    /\ result = [p \in Workers |-> "-"]
    /\ body = [p \in Workers |-> NoBody]
    /\ round_trips = [p \in Workers |-> 0]
    /\ served = 0
    /\ failures = 0
    /\ credited = <<>>

\* ------------------------------------------------------------------ helpers
\* A validator that falls back to a default campus for a token it rejects.
extract_claims_DefaultCampus(token) ==
    IF token \in Campuses
    THEN [ok |-> TRUE, campus_id |-> token]
    ELSE [ok |-> TRUE, campus_id |-> "campusA"]

\* extract_claims: Ok(claims) for a token the validator accepts, Err otherwise.
extract_claims(token) ==
    IF token \in Campuses
    THEN [ok |-> TRUE, campus_id |-> token]
    ELSE [ok |-> FALSE, campus_id |-> "-"]

\* ObjectId::parse_str(&s): Ok for a well-formed id string.
parse_str(s) == [ok |-> s >= 1, oid |-> s]

\* A lookup whose filter names the _id alone.
find_one_AnyCampus(coll, oid, campus_id) ==
    IF oid \in 1..Len(coll) THEN oid ELSE 0

\* collection.find_one(doc!{"_id": oid, "campus_id": campus_id}): the index of
\* the matching document, 0 for None.
find_one(coll, oid, campus_id) ==
    IF oid \in 1..Len(coll) /\ coll[oid].campus_id = campus_id THEN oid ELSE 0

\* collection.update_one(filter, update): the index of the document the
\* filter matches (a filter names the _id and, in some calls, the campus_id),
\* 0 when it matches none.
update_one(coll, filter) ==
    IF /\ filter._id \in 1..Len(coll)
       /\ "campus_id" \in DOMAIN filter => coll[filter._id].campus_id = filter.campus_id
    THEN filter._id
    ELSE 0

\* collection.find(doc!{"campus_id": campus_id}) and the cursor read to its
\* end: the matching documents of the first n, in order, each with its _id.
RECURSIVE find(_, _, _)
find(coll, campus_id, n) ==
    IF n = 0
    THEN <<>>
    ELSE IF coll[n].campus_id = campus_id
    THEN Append(find(coll, campus_id, n - 1), [_id |-> n, doc |-> coll[n]])
    ELSE find(coll, campus_id, n - 1)

InFlight(p) == pc[p] \notin {"idle", "done"}
Quiescent == \A p \in Workers : ~InFlight(p)

\* A request arrives and the lowest free worker takes it (its last response
\* has been sent).
CanBegin(p) ==
    /\ served < MaxRequests
    /\ ~InFlight(p)
    /\ \A q \in Workers : q < p => InFlight(q)
    /\ served' = served + 1

\* A store call fails: the handler returns the error as a 500.
StoreFails == failures < MaxFailures /\ failures' = failures + 1

\* The handler returns a response with body b: the response is recorded, the
\* locals are dropped.
RespondBody(p, o, rq, r, b) ==
    /\ pc' = [pc EXCEPT ![p] = "done"]
    /\ op' = [op EXCEPT ![p] = o]
    /\ req' = [req EXCEPT ![p] = rq]
    /\ local' = [local EXCEPT ![p] = NoLocal]
    /\ result' = [result EXCEPT ![p] = r]
    /\ body' = [body EXCEPT ![p] = b]
    /\ round_trips' = [round_trips EXCEPT ![p] = 0]

\* The handler returns a message or an error.
Respond(p, o, rq, r) == RespondBody(p, o, rq, r, NoBody)

\* A store call of the handler has returned and the handler goes on to its
\* next store call.
Continue(p, o, rq, lc, next) ==
    /\ pc' = [pc EXCEPT ![p] = next]
    /\ op' = [op EXCEPT ![p] = o]
    /\ req' = [req EXCEPT ![p] = rq]
    /\ local' = [local EXCEPT ![p] = lc]
    /\ result' = [result EXCEPT ![p] = "-"]
    /\ body' = [body EXCEPT ![p] = NoBody]
    /\ round_trips' = [round_trips EXCEPT ![p] = @ + 1]

\* A list handler whose find has an empty filter.
list_by_campus_Unfiltered(p, token, o, coll) ==
    /\ CanBegin(p)
    /\ LET claims == extract_claims(token)
       IN  IF ~claims.ok
           THEN /\ Respond(p, o, [token |-> token], "Unauthorized")
                /\ UNCHANGED failures
           ELSE \/ /\ RespondBody(p, o, [token |-> token], "Ok",
                                  [i \in 1..Len(coll) |-> [_id |-> i, doc |-> coll[i]]])
                   /\ UNCHANGED failures
                \/ /\ StoreFails
                   /\ Respond(p, o, [token |-> token], "InternalServerError")
    /\ UNCHANGED <<database, registry, update_filter, now, credited>>

\* A list handler (get_rooms, get_books, ...): the claims, the find on the
\* caller's campus, and the documents the cursor yields as the response; an
\* error of find or of the cursor is a 500.
list_by_campus(p, token, o, coll) ==
    /\ CanBegin(p)
    /\ LET claims == extract_claims(token)
       IN  IF ~claims.ok
           THEN /\ Respond(p, o, [token |-> token], "Unauthorized")
                /\ UNCHANGED failures
           ELSE \/ /\ RespondBody(p, o, [token |-> token], "Ok",
                                  find(coll, claims.campus_id, Len(coll)))
                   /\ UNCHANGED failures
                \/ /\ StoreFails
                   /\ Respond(p, o, [token |-> token], "InternalServerError")
    /\ UNCHANGED <<database, registry, update_filter, now, credited>>

\* ------------------------------------------------------------ hostel-service
\* A room stamped with a fixed campus instead of the caller's.
NewRoom_FixedCampus(capacity, campus_id) ==
    [capacity |-> capacity, occupied |-> 0, campus_id |-> "campusA"]

NewRoom(capacity, campus_id) ==
    [capacity |-> capacity, occupied |-> 0, campus_id |-> campus_id]

create_room(p, token, capacity) ==
    /\ CanBegin(p)
    /\ LET claims == extract_claims(token)
           rq == [token |-> token, capacity |-> capacity]
       IN  IF ~claims.ok
           THEN /\ Respond(p, "create_room", [token |-> token], "Unauthorized")
                /\ UNCHANGED <<rooms, failures>>
           ELSE \/ /\ Len(rooms) < MaxRooms
                   /\ rooms' = Append(rooms, NewRoom(capacity, claims.campus_id))
                   /\ Respond(p, "create_room", rq, "Ok")
                   /\ UNCHANGED failures
                \/ /\ StoreFails
                   /\ Respond(p, "create_room", rq, "InternalServerError")
                   /\ UNCHANGED rooms
    /\ UNCHANGED <<room_allocations, books, book_issues, leave_requests, now, credited>>
    /\ UNCHANGED maintenance_requests
    /\ UNCHANGED registry
    /\ UNCHANGED <<ledgers, update_filter>>

\* A check that lets a room at capacity take one more student.
RoomIsFull_OffByOne(room) == room.occupied > room.capacity

\* "Check if room is available": the room cannot take another student.
RoomIsFull(room) == room.occupied >= room.capacity

NewAllocation(student_id, room_id, campus_id) ==
    [student_id |-> student_id, room_id |-> room_id,
     status |-> "active", campus_id |-> campus_id]

\* allocate_room up to its first store call and the check on what it read.
allocate_room_find(p, token, student_id, room_id) ==
    /\ CanBegin(p)
    /\ LET claims == extract_claims(token)
           rq == [token |-> token, student_id |-> student_id, room_id |-> room_id]
           room_obj_id == parse_str(room_id)
           room == find_one(rooms, room_obj_id.oid, claims.campus_id)
       IN  IF ~claims.ok
           THEN /\ Respond(p, "allocate_room", [token |-> token], "Unauthorized")
                /\ UNCHANGED failures
           ELSE IF ~room_obj_id.ok
           THEN /\ Respond(p, "allocate_room", rq, "BadRequest")
                /\ UNCHANGED failures
           ELSE \/ /\ StoreFails
                   /\ Respond(p, "allocate_room", rq, "InternalServerError")
                \/ /\ UNCHANGED failures
                   /\ IF room = 0
                      THEN Respond(p, "allocate_room", rq, "NotFound")
                      ELSE IF RoomIsFull(rooms[room])
                      THEN Respond(p, "allocate_room", rq, "RoomFull")
                      ELSE Continue(p, "allocate_room", rq,
                                    [campus_id |-> claims.campus_id], "insert_one")
    /\ UNCHANGED <<rooms, room_allocations, books, book_issues, leave_requests, now, credited>>
    /\ UNCHANGED maintenance_requests
    /\ UNCHANGED registry
    /\ UNCHANGED <<ledgers, update_filter>>

\* allocate_room: allocation_collection.insert_one(new_allocation).
allocate_room_insert(p) ==
    /\ pc[p] = "insert_one" /\ op[p] = "allocate_room"
    /\ UNCHANGED served
    /\ \/ /\ room_allocations' = Append(room_allocations,
                NewAllocation(req[p].student_id, req[p].room_id, local[p].campus_id))
          /\ Continue(p, op[p], req[p], local[p], "update_one")
          /\ UNCHANGED failures
       \/ /\ StoreFails
          /\ Respond(p, op[p], req[p], "InternalServerError")
          /\ UNCHANGED room_allocations
    /\ UNCHANGED <<rooms, books, book_issues, leave_requests, now, credited>>
    /\ UNCHANGED maintenance_requests
    /\ UNCHANGED registry
    /\ UNCHANGED <<ledgers, update_filter>>

\* room_collection.update_one(doc!{"_id": oid}, doc!{"$inc": {"occupied": 1}}):
\* the filter names the _id alone.
RoomCounterFilter(oid) == [_id |-> oid]

\* A counter update that gives a place back.
IncOccupied_Decrements(coll, oid) ==
    IF update_one(coll, RoomCounterFilter(oid)) # 0
    THEN [coll EXCEPT ![oid].occupied = @ - 1]
    ELSE coll

IncOccupied(coll, oid) ==
    IF update_one(coll, RoomCounterFilter(oid)) # 0
    THEN [coll EXCEPT ![oid].occupied = @ + 1]
    ELSE coll

\* allocate_room: the counter update and the response.
allocate_room_update(p) ==
    /\ pc[p] = "update_one" /\ op[p] = "allocate_room"
    /\ UNCHANGED served
    /\ \/ /\ rooms' = IncOccupied(rooms, req[p].room_id)
          /\ Respond(p, op[p], req[p], "Ok")
          /\ UNCHANGED failures
       \/ /\ StoreFails
          /\ Respond(p, op[p], req[p], "InternalServerError")
          /\ UNCHANGED rooms
    /\ UNCHANGED <<room_allocations, books, book_issues, leave_requests, now, credited>>
    /\ UNCHANGED maintenance_requests
    /\ UNCHANGED registry
    /\ update_filter' = DOMAIN RoomCounterFilter(req[p].room_id)
    /\ UNCHANGED ledgers

NewMaintenanceRequest(campus_id) ==
    [status |-> "pending", campus_id |-> campus_id]

create_maintenance_request(p, token) ==
    /\ CanBegin(p)
    /\ LET claims == extract_claims(token)
       IN  IF ~claims.ok
           THEN /\ Respond(p, "create_maintenance_request", [token |-> token],
                           "Unauthorized")
                /\ UNCHANGED <<maintenance_requests, failures>>
           ELSE \/ /\ maintenance_requests' = Append(maintenance_requests,
                          NewMaintenanceRequest(claims.campus_id))
                   /\ Respond(p, "create_maintenance_request", [token |-> token], "Ok")
                   /\ UNCHANGED failures
                \/ /\ StoreFails
                   /\ Respond(p, "create_maintenance_request", [token |-> token],
                              "InternalServerError")
                   /\ UNCHANGED maintenance_requests
                   /\ UNCHANGED registry
    /\ UNCHANGED <<pools, leave_requests, ledgers, registry, update_filter>>

get_rooms(p, token) == list_by_campus(p, token, "get_rooms", rooms)

get_allocations(p, token) ==
    list_by_campus(p, token, "get_allocations", room_allocations)

get_maintenance_requests(p, token) ==
    list_by_campus(p, token, "get_maintenance_requests", maintenance_requests)

\* The room handlers (the only ones that touch rooms and room_allocations).
NextHostel ==
    \E p \in Workers :
        \/ \E token \in Tokens, capacity \in CapacityInputs : create_room(p, token, capacity)
        \/ \E token \in Tokens, student_id \in Students, room_id \in IdInputs(MaxRooms) :
               allocate_room_find(p, token, student_id, room_id)
        \/ allocate_room_insert(p)
        \/ allocate_room_update(p)

SpecHostel == Init /\ [][NextHostel]_vars

NextMaintenance ==
    \E p \in Workers : \E token \in Tokens : create_maintenance_request(p, token)

\* Every route of the hostel service that takes a credential.
NextHostelService ==
    \/ NextHostel
    \/ NextMaintenance
    \/ \E p \in Workers : \E token \in Tokens :
          \/ get_rooms(p, token)
          \/ get_allocations(p, token)
          \/ get_maintenance_requests(p, token)

SpecHostelService == Init /\ [][NextHostelService]_vars

\* ----------------------------------------------------------- library-service
None == [some |-> FALSE, at |-> 0]
Some(t) == [some |-> TRUE, at |-> t]

\* A book registered with no copy on the shelf.
NewBook_NoneAvailable(total_copies, campus_id) ==
    [total_copies |-> total_copies, available_copies |-> 0,
     campus_id |-> campus_id]

NewBook(total_copies, campus_id) ==
    [total_copies |-> total_copies, available_copies |-> total_copies,
     campus_id |-> campus_id]

add_book(p, token, total_copies) ==
    /\ CanBegin(p)
    /\ LET claims == extract_claims(token)
           rq == [token |-> token, total_copies |-> total_copies]
       IN  IF ~claims.ok
           THEN /\ Respond(p, "add_book", [token |-> token], "Unauthorized")
                /\ UNCHANGED <<books, failures>>
           ELSE \/ /\ Len(books) < MaxBooks
                   /\ books' = Append(books, NewBook(total_copies, claims.campus_id))
                   /\ Respond(p, "add_book", rq, "Ok")
                   /\ UNCHANGED failures
                \/ /\ StoreFails
                   /\ Respond(p, "add_book", rq, "InternalServerError")
                   /\ UNCHANGED books
    /\ UNCHANGED <<rooms, room_allocations, book_issues, leave_requests, now, credited>>
    /\ UNCHANGED maintenance_requests
    /\ UNCHANGED registry
    /\ UNCHANGED <<ledgers, update_filter>>

\* "Check availability": no copy is left to issue.
BookUnavailable(book) == book.available_copies <= 0

\* Duration::days(n), in clock ticks.
DurationDays(n) == n * TicksPerDay

NewIssue(book_id, student_id, due_date, campus_id) ==
    [book_id |-> book_id, student_id |-> student_id, due_date |-> due_date,
     return_date |-> None, status |-> "issued", fine_amount |-> 0,
     campus_id |-> campus_id]

\* issue_book up to its first store call, the check on what it read and the
\* dates it computes before the insert.
issue_book_find(p, token, student_id, book_id, days) ==
    /\ CanBegin(p)
    /\ LET claims == extract_claims(token)
           rq == [token |-> token, student_id |-> student_id, book_id |-> book_id,
                  days |-> days]
           book_obj_id == parse_str(book_id)
           book == find_one(books, book_obj_id.oid, claims.campus_id)
       IN  IF ~claims.ok
           THEN /\ Respond(p, "issue_book", [token |-> token], "Unauthorized")
                /\ UNCHANGED failures
           ELSE IF ~book_obj_id.ok
           THEN /\ Respond(p, "issue_book", rq, "BadRequest")
                /\ UNCHANGED failures
           ELSE \/ /\ StoreFails
                   /\ Respond(p, "issue_book", rq, "InternalServerError")
                \/ /\ UNCHANGED failures
                   /\ IF book = 0
                      THEN Respond(p, "issue_book", rq, "NotFound")
                      ELSE IF BookUnavailable(books[book])
                      THEN Respond(p, "issue_book", rq, "NotAvailable")
                      ELSE Continue(p, "issue_book", rq,
                                    [campus_id |-> claims.campus_id,
                                     due_date |-> now + DurationDays(days)],
                                    "insert_one")
    /\ UNCHANGED <<rooms, room_allocations, books, book_issues, leave_requests, now, credited>>
    /\ UNCHANGED maintenance_requests
    /\ UNCHANGED registry
    /\ UNCHANGED <<ledgers, update_filter>>

\* issue_book: issue_collection.insert_one(new_issue).
issue_book_insert(p) ==
    /\ pc[p] = "insert_one" /\ op[p] = "issue_book"
    /\ UNCHANGED served
    /\ \/ /\ book_issues' = Append(book_issues,
                NewIssue(req[p].book_id, req[p].student_id, local[p].due_date,
                         local[p].campus_id))
          /\ credited' = Append(credited, 0)
          /\ Continue(p, op[p], req[p], local[p], "update_one")
          /\ UNCHANGED failures
       \/ /\ StoreFails
          /\ Respond(p, op[p], req[p], "InternalServerError")
          /\ UNCHANGED <<book_issues, credited>>
    /\ UNCHANGED <<rooms, room_allocations, books, leave_requests, now>>
    /\ UNCHANGED maintenance_requests
    /\ UNCHANGED registry
    /\ UNCHANGED <<ledgers, update_filter>>

\* book_collection.update_one(doc!{"_id": oid},
\*     doc!{"$inc": {"available_copies": d}}): the filter names the _id alone.
BookCounterFilter(oid) == [_id |-> oid]

IncAvailable(coll, oid, d) ==
    IF update_one(coll, BookCounterFilter(oid)) # 0
    THEN [coll EXCEPT ![oid].available_copies = @ + d]
    ELSE coll

\* issue_book: the counter update and the response.
issue_book_update(p) ==
    /\ pc[p] = "update_one" /\ op[p] = "issue_book"
    /\ UNCHANGED served
    /\ \/ /\ books' = IncAvailable(books, req[p].book_id, 0 - 1)
          /\ Respond(p, op[p], req[p], "Ok")
          /\ UNCHANGED failures
       \/ /\ StoreFails
          /\ Respond(p, op[p], req[p], "InternalServerError")
          /\ UNCHANGED books
    /\ UNCHANGED <<rooms, room_allocations, book_issues, leave_requests, now, credited>>
    /\ UNCHANGED maintenance_requests
    /\ UNCHANGED registry
    /\ update_filter' = DOMAIN BookCounterFilter(req[p].book_id)
    /\ UNCHANGED ledgers

\* A fine that charges every started day.
FineAmount_StartedDays(due_date, return_date) ==
    IF return_date > due_date
    THEN ((return_date - due_date + TicksPerDay - 1) \div TicksPerDay) * FinePerDay
    ELSE 0

\* "Calculate fine if overdue": (return_date - due_date).num_days() whole days
\* at FinePerDay each, when return_date > due_date.
FineAmount(due_date, return_date) ==
    IF return_date > due_date
    THEN ((return_date - due_date) \div TicksPerDay) * FinePerDay
    ELSE 0

ReturnStatus(due_date, return_date) ==
    IF return_date > due_date THEN "returned_with_fine" ELSE "returned"

\* A return_book whose find_one names the _id alone.
return_book_find_AnyCampus(p, token, issue_id) ==
    /\ CanBegin(p)
    /\ LET claims == extract_claims(token)
           rq == [token |-> token, issue_id |-> issue_id]
           issue_obj_id == parse_str(issue_id)
           issue == IF issue_obj_id.oid \in 1..Len(book_issues)
                    THEN issue_obj_id.oid ELSE 0
       IN  IF ~claims.ok
           THEN /\ Respond(p, "return_book", [token |-> token], "Unauthorized")
                /\ UNCHANGED failures
           ELSE IF ~issue_obj_id.ok
           THEN /\ Respond(p, "return_book", rq, "BadRequest")
                /\ UNCHANGED failures
           ELSE \/ /\ StoreFails
                   /\ Respond(p, "return_book", rq, "InternalServerError")
                \/ /\ UNCHANGED failures
                   /\ IF issue = 0
                      THEN Respond(p, "return_book", rq, "NotFound")
                      ELSE Continue(p, "return_book", rq,
                             [campus_id |-> claims.campus_id,
                              issue |-> book_issues[issue],
                              return_date |-> now,
                              fine_amount |-> FineAmount(book_issues[issue].due_date, now),
                              status |-> ReturnStatus(book_issues[issue].due_date, now)],
                             "update_issue")
    /\ UNCHANGED <<rooms, room_allocations, books, book_issues, leave_requests, now, credited>>
    /\ UNCHANGED maintenance_requests
    /\ UNCHANGED registry
    /\ UNCHANGED <<ledgers, update_filter>>

\* return_book up to its first store call and the fine it computes from what
\* it read.
return_book_find(p, token, issue_id) ==
    /\ CanBegin(p)
    /\ LET claims == extract_claims(token)
           rq == [token |-> token, issue_id |-> issue_id]
           issue_obj_id == parse_str(issue_id)
           issue == find_one(book_issues, issue_obj_id.oid, claims.campus_id)
       IN  IF ~claims.ok
           THEN /\ Respond(p, "return_book", [token |-> token], "Unauthorized")
                /\ UNCHANGED failures
           ELSE IF ~issue_obj_id.ok
           THEN /\ Respond(p, "return_book", rq, "BadRequest")
                /\ UNCHANGED failures
           ELSE \/ /\ StoreFails
                   /\ Respond(p, "return_book", rq, "InternalServerError")
                \/ /\ UNCHANGED failures
                   /\ IF issue = 0
                      THEN Respond(p, "return_book", rq, "NotFound")
                      ELSE Continue(p, "return_book", rq,
                             [campus_id |-> claims.campus_id,
                              issue |-> book_issues[issue],
                              return_date |-> now,
                              fine_amount |-> FineAmount(book_issues[issue].due_date, now),
                              status |-> ReturnStatus(book_issues[issue].due_date, now)],
                             "update_issue")
    /\ UNCHANGED <<rooms, room_allocations, books, book_issues, leave_requests, now, credited>>
    /\ UNCHANGED maintenance_requests
    /\ UNCHANGED registry
    /\ UNCHANGED <<ledgers, update_filter>>

\* issue_collection.update_one(doc!{"_id": oid}, doc!{"$set": {return_date,
\* status, fine_amount}}): the filter names the _id alone.
IssueFilter(oid) == [_id |-> oid]

SetReturned(coll, oid, return_date, status, fine_amount) ==
    IF update_one(coll, IssueFilter(oid)) # 0
    THEN [coll EXCEPT ![oid] = [@ EXCEPT !.return_date = Some(return_date),
                                         !.status = status,
                                         !.fine_amount = fine_amount]]
    ELSE coll

\* return_book: the issue record's update, then the parse of issue.book_id.
return_book_update_issue(p) ==
    /\ pc[p] = "update_issue" /\ op[p] = "return_book"
    /\ UNCHANGED served
    /\ \/ /\ book_issues' = SetReturned(book_issues, req[p].issue_id,
                local[p].return_date, local[p].status, local[p].fine_amount)
          /\ IF parse_str(local[p].issue.book_id).ok
             THEN Continue(p, op[p], req[p], local[p], "update_book")
             ELSE Respond(p, op[p], req[p], "BadRequest")
          /\ UNCHANGED failures
       \/ /\ StoreFails
          /\ Respond(p, op[p], req[p], "InternalServerError")
          /\ UNCHANGED book_issues
    /\ UNCHANGED <<rooms, room_allocations, books, leave_requests, now, credited>>
    /\ UNCHANGED maintenance_requests
    /\ UNCHANGED registry
    /\ update_filter' = DOMAIN IssueFilter(req[p].issue_id)
    /\ UNCHANGED ledgers

\* return_book: the counter update and the response.
return_book_update_book(p) ==
    /\ pc[p] = "update_book" /\ op[p] = "return_book"
    /\ UNCHANGED served
    /\ \/ /\ books' = IncAvailable(books, local[p].issue.book_id, 1)
          /\ credited' = [credited EXCEPT ![req[p].issue_id] = @ + 1]
          /\ RespondBody(p, op[p], req[p], "Ok",
                         [fine_amount |-> local[p].fine_amount])
          /\ UNCHANGED failures
       \/ /\ StoreFails
          /\ Respond(p, op[p], req[p], "InternalServerError")
          /\ UNCHANGED <<books, credited>>
    /\ UNCHANGED <<rooms, room_allocations, book_issues, leave_requests, now>>
    /\ UNCHANGED maintenance_requests
    /\ UNCHANGED registry
    /\ update_filter' = DOMAIN BookCounterFilter(local[p].issue.book_id)
    /\ UNCHANGED ledgers

\* Time passes.
Tick ==
    /\ now < MaxTime
    /\ now' = now + 1
    /\ UNCHANGED <<rooms, room_allocations, books, book_issues, leave_requests,
                   pc, op, req, local, result, body, round_trips, served,
                   failures, credited>>
    /\ UNCHANGED maintenance_requests
    /\ UNCHANGED registry
    /\ UNCHANGED <<ledgers, update_filter>>

get_books(p, token) == list_by_campus(p, token, "get_books", books)

get_issues(p, token) == list_by_campus(p, token, "get_issues", book_issues)

\* The book handlers (the only ones that touch books and book_issues).
NextBooks ==
    \E p \in Workers :
        \/ \E token \in Tokens, total_copies \in CapacityInputs :
               add_book(p, token, total_copies)
        \/ \E token \in Tokens, student_id \in Borrowers, book_id \in IdInputs(MaxBooks),
              days \in DaysInputs :
               issue_book_find(p, token, student_id, book_id, days)
        \/ issue_book_insert(p)
        \/ issue_book_update(p)
        \/ \E token \in Tokens, issue_id \in IdInputs(MaxIssueId) :
               return_book_find(p, token, issue_id)
        \/ return_book_update_issue(p)
        \/ return_book_update_book(p)

NextLibrary == Tick \/ NextBooks

SpecLibrary == Init /\ [][NextLibrary]_vars

\* The return handler alone.
NextReturns ==
    \E p \in Workers :
        \/ \E token \in Tokens, issue_id \in IdInputs(MaxIssueId) :
               return_book_find(p, token, issue_id)
        \/ return_book_update_issue(p)
        \/ return_book_update_book(p)

\* A loan and the clock at its return: a campus has added a book of one copy
\* and issued it at time t for MaxDays days (worker 1 answered both), and the
\* clock now reads some n from t to the end of the day that is MaxLateDays
\* whole days after the due date.
InitFine ==
    \E c \in Campuses, t \in 0..MaxIssueTime :
        \E n \in t..(t + DurationDays(MaxDays) + DurationDays(MaxLateDays + 1) - 1) :
            /\ rooms = <<>>
            /\ room_allocations = <<>>
            /\ books = <<[NewBook(1, c) EXCEPT !.available_copies = 0]>>
            /\ book_issues = <<NewIssue(1, "s1", t + DurationDays(MaxDays), c)>>
            /\ leave_requests = <<>>
            /\ maintenance_requests = <<>>
            /\ faculty = <<>>
            /\ payroll = <<>>
            /\ fees = <<>>
            /\ payments = <<>>
            /\ invoices = <<>>
            /\ enrollments = <<>>
            /\ users = <<>>
            /\ update_filter = DOMAIN BookCounterFilter(1)
            /\ now = n
            /\ pc = [p \in Workers |-> IF p = 1 THEN "done" ELSE "idle"]
            /\ op = [p \in Workers |-> IF p = 1 THEN "issue_book" ELSE "-"]
            /\ req = [p \in Workers |->
                        IF p = 1
                        THEN [token |-> c, student_id |-> "s1", book_id |-> 1,
                              days |-> MaxDays]
                        ELSE NoReq]
            /\ local = [p \in Workers |-> NoLocal]
            /\ result = [p \in Workers |-> IF p = 1 THEN "Ok" ELSE "-"]
            /\ body = [p \in Workers |-> NoBody]
            /\ round_trips = [p \in Workers |-> 0]
            /\ served = 2
            /\ failures = 0
            /\ credited = <<0>>

SpecFine == InitFine /\ [][NextReturns]_vars

\* The two allocators over the one store.
NextPools == NextHostel \/ NextLibrary

SpecPools == Init /\ [][NextPools]_vars

\* ---------------------------------------------------------------- hr-service
NewLeaveRequest(employee_id, campus_id) ==
    [employee_id |-> employee_id, status |-> "pending", campus_id |-> campus_id]

create_leave_request(p, token, employee_id) ==
    /\ CanBegin(p)
    /\ LET claims == extract_claims(token)
           rq == [token |-> token, employee_id |-> employee_id]
       IN  IF ~claims.ok
           THEN /\ Respond(p, "create_leave_request", [token |-> token], "Unauthorized")
                /\ UNCHANGED <<leave_requests, failures>>
           ELSE \/ /\ Len(leave_requests) < MaxLeaves
                   /\ leave_requests' = Append(leave_requests,
                          NewLeaveRequest(employee_id, claims.campus_id))
                   /\ Respond(p, "create_leave_request", rq, "Ok")
                   /\ UNCHANGED failures
                \/ /\ StoreFails
                   /\ Respond(p, "create_leave_request", rq, "InternalServerError")
                   /\ UNCHANGED leave_requests
    /\ UNCHANGED <<rooms, room_allocations, books, book_issues, now, credited>>
    /\ UNCHANGED maintenance_requests
    /\ UNCHANGED registry
    /\ UNCHANGED <<ledgers, update_filter>>

\* collection.update_one(doc!{"_id": oid, "campus_id": campus_id},
\*     doc!{"$set": {"status": status}}): a filter that matches nothing
\* updates nothing and is no error.
LeaveFilter(oid, campus_id) == [_id |-> oid, campus_id |-> campus_id]

\* An update that replaces the matched document instead of setting one field
\* of it.
SetLeaveStatus_Replace(coll, oid, campus_id, status) ==
    IF update_one(coll, LeaveFilter(oid, campus_id)) # 0
    THEN [coll EXCEPT ![oid] = [employee_id |-> "-", status |-> status,
                                campus_id |-> campus_id]]
    ELSE coll

SetLeaveStatus(coll, oid, campus_id, status) ==
    IF update_one(coll, LeaveFilter(oid, campus_id)) # 0
    THEN [coll EXCEPT ![oid].status = status]
    ELSE coll

approve_leave(p, token, request_id, status) ==
    /\ CanBegin(p)
    /\ LET claims == extract_claims(token)
           rq == [token |-> token, request_id |-> request_id, status |-> status]
           request_obj_id == parse_str(request_id)
       IN  IF ~claims.ok
           THEN /\ Respond(p, "approve_leave", [token |-> token], "Unauthorized")
                /\ UNCHANGED <<leave_requests, failures, update_filter>>
           ELSE IF ~request_obj_id.ok
           THEN /\ Respond(p, "approve_leave", rq, "BadRequest")
                /\ UNCHANGED <<leave_requests, failures, update_filter>>
           ELSE /\ update_filter' = DOMAIN LeaveFilter(request_obj_id.oid, claims.campus_id)
                /\ \/ /\ leave_requests' = SetLeaveStatus(leave_requests,
                             request_obj_id.oid, claims.campus_id, status)
                      /\ Respond(p, "approve_leave", rq, "Ok")
                      /\ UNCHANGED failures
                   \/ /\ StoreFails
                      /\ Respond(p, "approve_leave", rq, "InternalServerError")
                      /\ UNCHANGED leave_requests
    /\ UNCHANGED <<rooms, room_allocations, books, book_issues, now, credited>>
    /\ UNCHANGED maintenance_requests
    /\ UNCHANGED registry
    /\ UNCHANGED ledgers

NewFaculty(employee_id, salary, campus_id) ==
    [employee_id |-> employee_id, salary |-> salary, campus_id |-> campus_id]

add_faculty(p, token, employee_id, salary) ==
    /\ CanBegin(p)
    /\ LET claims == extract_claims(token)
           rq == [token |-> token, employee_id |-> employee_id, salary |-> salary]
       IN  IF ~claims.ok
           THEN /\ Respond(p, "add_faculty", [token |-> token], "Unauthorized")
                /\ UNCHANGED <<faculty, failures>>
           ELSE \/ /\ Len(faculty) < MaxFaculty
                   /\ faculty' = Append(faculty,
                          NewFaculty(employee_id, salary, claims.campus_id))
                   /\ Respond(p, "add_faculty", rq, "Ok")
                   /\ UNCHANGED failures
                \/ /\ StoreFails
                   /\ Respond(p, "add_faculty", rq, "InternalServerError")
                   /\ UNCHANGED faculty
    /\ UNCHANGED <<pools, leave_requests, payroll, fees, payments, invoices,
                   update_filter>>
    /\ UNCHANGED maintenance_requests
    /\ UNCHANGED registry

\* A faculty lookup by employee_id alone.
find_faculty_AnyCampus(coll, employee_id, campus_id) ==
    LET found == {i \in 1..Len(coll) : coll[i].employee_id = employee_id}
    IN  IF found = {} THEN 0 ELSE CHOOSE i \in found : \A j \in found : i <= j

\* faculty_collection.find_one(doc!{"employee_id": .., "campus_id": ..}): the
\* index of the first matching document, 0 for None.
find_faculty(coll, employee_id, campus_id) ==
    LET found == {i \in 1..Len(coll) : /\ coll[i].employee_id = employee_id
                                       /\ coll[i].campus_id = campus_id}
    IN  IF found = {} THEN 0 ELSE CHOOSE i \in found : \A j \in found : i <= j

\* A net salary that is never below zero.
NetSalary_FlooredAtZero(basic_salary, allowances, deductions) ==
    IF basic_salary + allowances - deductions < 0
    THEN 0
    ELSE basic_salary + allowances - deductions

\* net_salary = basic_salary + allowances - deductions
NetSalary(basic_salary, allowances, deductions) ==
    basic_salary + allowances - deductions

NewPayroll(employee_id, basic_salary, allowances, deductions, campus_id) ==
    [employee_id |-> employee_id, basic_salary |-> basic_salary,
     allowances |-> allowances, deductions |-> deductions,
     net_salary |-> NetSalary(basic_salary, allowances, deductions),
     payment_status |-> "pending", campus_id |-> campus_id]

\* create_payroll up to its first store call ("Get faculty details").
create_payroll_find(p, token, employee_id, allowances, deductions) ==
    /\ CanBegin(p)
    /\ LET claims == extract_claims(token)
           rq == [token |-> token, employee_id |-> employee_id,
                  allowances |-> allowances, deductions |-> deductions]
           f == find_faculty(faculty, employee_id, claims.campus_id)
       IN  IF ~claims.ok
           THEN /\ Respond(p, "create_payroll", [token |-> token], "Unauthorized")
                /\ UNCHANGED failures
           ELSE \/ /\ StoreFails
                   /\ Respond(p, "create_payroll", rq, "InternalServerError")
                \/ /\ UNCHANGED failures
                   /\ IF f = 0
                      THEN Respond(p, "create_payroll", rq, "NotFound")
                      ELSE Continue(p, "create_payroll", rq,
                                    [campus_id |-> claims.campus_id,
                                     basic_salary |-> faculty[f].salary],
                                    "insert_one")
    /\ UNCHANGED <<pools, leave_requests, ledgers, update_filter>>
    /\ UNCHANGED maintenance_requests
    /\ UNCHANGED registry

\* create_payroll: payroll_collection.insert_one(new_payroll) and the response.
create_payroll_insert(p) ==
    /\ pc[p] = "insert_one" /\ op[p] = "create_payroll"
    /\ UNCHANGED served
    /\ \/ /\ payroll' = Append(payroll,
                NewPayroll(req[p].employee_id, local[p].basic_salary,
                           req[p].allowances, req[p].deductions, local[p].campus_id))
          /\ RespondBody(p, op[p], req[p], "Ok",
                         [net_salary |-> NetSalary(local[p].basic_salary,
                                            req[p].allowances, req[p].deductions)])
          /\ UNCHANGED failures
       \/ /\ StoreFails
          /\ Respond(p, op[p], req[p], "InternalServerError")
          /\ UNCHANGED payroll
    /\ UNCHANGED <<pools, leave_requests, faculty, fees, payments, invoices,
                   update_filter>>
    /\ UNCHANGED maintenance_requests
    /\ UNCHANGED registry

get_faculty(p, token) == list_by_campus(p, token, "get_faculty", faculty)

get_leave_requests(p, token) ==
    list_by_campus(p, token, "get_leave_requests", leave_requests)

get_payroll(p, token) == list_by_campus(p, token, "get_payroll", payroll)

\* The leave handlers (the only ones that touch leave_requests).
NextLeave ==
    \E p \in Workers :
        \/ \E token \in Tokens, employee_id \in Employees :
               create_leave_request(p, token, employee_id)
        \/ \E token \in Tokens, request_id \in IdInputs(MaxLeaves),
              status \in LeaveStatusInputs :
               approve_leave(p, token, request_id, status)

\* The faculty and payroll handlers.
NextPayroll ==
    \E p \in Workers :
        \/ \E token \in Tokens, employee_id \in Employees, salary \in AmountInputs :
               add_faculty(p, token, employee_id, salary)
        \/ \E token \in Tokens, employee_id \in Employees,
              allowances \in AmountInputs, deductions \in AmountInputs :
               create_payroll_find(p, token, employee_id, allowances, deductions)
        \/ create_payroll_insert(p)

NextHR == NextLeave \/ NextPayroll

SpecHR == Init /\ [][NextHR]_vars

\* ----------------------------------------------------------- finance-service
NewFee(student_id, campus_id) ==
    [student_id |-> student_id, status |-> "pending", campus_id |-> campus_id]

create_fee(p, token, student_id) ==
    /\ CanBegin(p)
    /\ LET claims == extract_claims(token)
           rq == [token |-> token, student_id |-> student_id]
       IN  IF ~claims.ok
           THEN /\ Respond(p, "create_fee", [token |-> token], "Unauthorized")
                /\ UNCHANGED <<fees, failures>>
           ELSE \/ /\ Len(fees) < MaxFees
                   /\ fees' = Append(fees, NewFee(student_id, claims.campus_id))
                   /\ Respond(p, "create_fee", rq, "Ok")
                   /\ UNCHANGED failures
                \/ /\ StoreFails
                   /\ Respond(p, "create_fee", rq, "InternalServerError")
                   /\ UNCHANGED fees
    /\ UNCHANGED <<pools, leave_requests, faculty, payroll, payments, invoices,
                   update_filter>>
    /\ UNCHANGED maintenance_requests
    /\ UNCHANGED registry

NewPayment(student_id, fee_id, campus_id) ==
    [student_id |-> student_id, fee_id |-> fee_id, campus_id |-> campus_id]

\* create_payment up to its first store call, collection.insert_one(new_payment),
\* and the parse of fee_id that follows it.
create_payment_insert(p, token, student_id, fee_id) ==
    /\ CanBegin(p)
    /\ LET claims == extract_claims(token)
           rq == [token |-> token, student_id |-> student_id, fee_id |-> fee_id]
           fee_obj_id == parse_str(fee_id)
       IN  IF ~claims.ok
           THEN /\ Respond(p, "create_payment", [token |-> token], "Unauthorized")
                /\ UNCHANGED <<payments, failures>>
           ELSE \/ /\ payments' = Append(payments,
                          NewPayment(student_id, fee_id, claims.campus_id))
                   /\ IF fee_obj_id.ok
                      THEN Continue(p, "create_payment", rq,
                                    [campus_id |-> claims.campus_id], "update_one")
                      ELSE Respond(p, "create_payment", rq, "BadRequest")
                   /\ UNCHANGED failures
                \/ /\ StoreFails
                   /\ Respond(p, "create_payment", rq, "InternalServerError")
                   /\ UNCHANGED payments
    /\ UNCHANGED <<pools, leave_requests, faculty, payroll, fees, invoices,
                   update_filter>>
    /\ UNCHANGED maintenance_requests
    /\ UNCHANGED registry

\* A status other than the one the handler writes.
PaidStatus_Misspelt == "payed"

\* "Update fee status to paid".
PaidStatus == "paid"

\* A filter that carries the id as the request's string, not as an ObjectId:
\* it matches no document.
FeeFilter_StringId(oid, campus_id) == [_id |-> 0, campus_id |-> campus_id]

FeeFilter(oid, campus_id) == [_id |-> oid, campus_id |-> campus_id]

\* fee_collection.update_one(doc!{"_id": oid, "campus_id": campus_id},
\*     doc!{"$set": {"status": "paid"}}): a filter that matches nothing
\* updates nothing and is no error.
SetFeePaid(coll, oid, campus_id) ==
    IF update_one(coll, FeeFilter(oid, campus_id)) # 0
    THEN [coll EXCEPT ![oid].status = PaidStatus]
    ELSE coll

\* create_payment: the fee's update and the response.
create_payment_update(p) ==
    /\ pc[p] = "update_one" /\ op[p] = "create_payment"
    /\ UNCHANGED served
    /\ \/ /\ fees' = SetFeePaid(fees, req[p].fee_id, local[p].campus_id)
          /\ Respond(p, op[p], req[p], "Ok")
          /\ UNCHANGED failures
       \/ /\ StoreFails
          /\ Respond(p, op[p], req[p], "InternalServerError")
          /\ UNCHANGED fees
    /\ update_filter' = DOMAIN FeeFilter(req[p].fee_id, local[p].campus_id)
    /\ UNCHANGED <<pools, leave_requests, faculty, payroll, payments, invoices>>
    /\ UNCHANGED maintenance_requests
    /\ UNCHANGED registry

\* items.iter().map(|item| item.amount).sum()
RECURSIVE Total(_)
Total(items) == IF items = <<>> THEN 0 ELSE Head(items) + Total(Tail(items))

\* The item lists of an invoice request (each item by its amount).
ItemInputs == UNION {[1..n -> AmountInputs] : n \in 0..MaxItems}

\* An invoice whose total is the amount of its first item.
NewInvoice_FirstItemOnly(student_id, items, campus_id) ==
    [student_id |-> student_id, items |-> items,
     total_amount |-> IF items = <<>> THEN 0 ELSE Head(items),
     campus_id |-> campus_id]

NewInvoice(student_id, items, campus_id) ==
    [student_id |-> student_id, items |-> items, total_amount |-> Total(items),
     campus_id |-> campus_id]

create_invoice(p, token, student_id, items) ==
    /\ CanBegin(p)
    /\ LET claims == extract_claims(token)
           rq == [token |-> token, student_id |-> student_id, items |-> items]
       IN  IF ~claims.ok
           THEN /\ Respond(p, "create_invoice", [token |-> token], "Unauthorized")
                /\ UNCHANGED <<invoices, failures>>
           ELSE \/ /\ invoices' = Append(invoices,
                          NewInvoice(student_id, items, claims.campus_id))
                   /\ Respond(p, "create_invoice", rq, "Ok")
                   /\ UNCHANGED failures
                \/ /\ StoreFails
                   /\ Respond(p, "create_invoice", rq, "InternalServerError")
                   /\ UNCHANGED invoices
    /\ UNCHANGED <<pools, leave_requests, faculty, payroll, fees, payments,
                   update_filter>>
    /\ UNCHANGED maintenance_requests
    /\ UNCHANGED registry

get_fees(p, token) == list_by_campus(p, token, "get_fees", fees)

get_payments(p, token) == list_by_campus(p, token, "get_payments", payments)

get_invoices(p, token) == list_by_campus(p, token, "get_invoices", invoices)

\* The fee handlers (the only ones that touch fees and payments).
NextFees ==
    \E p \in Workers :
        \/ \E token \in Tokens, student_id \in Payers : create_fee(p, token, student_id)
        \/ \E token \in Tokens, student_id \in Payers, fee_id \in IdInputs(MaxFees) :
               create_payment_insert(p, token, student_id, fee_id)
        \/ create_payment_update(p)

NextInvoices ==
    \E p \in Workers :
        \E token \in Tokens, student_id \in Payers, items \in ItemInputs :
            create_invoice(p, token, student_id, items)

NextFinance == NextFees \/ NextInvoices

\* The invoice handler alone, with longer item lists.
SummedItemInputs == UNION {[1..n -> AmountInputs] : n \in 0..MaxSummedItems}

NextInvoiceTotals ==
    \E p \in Workers :
        \E token \in Tokens, student_id \in Payers, items \in SummedItemInputs :
            create_invoice(p, token, student_id, items)

SpecInvoices == Init /\ [][NextInvoiceTotals]_vars

SpecFinance == Init /\ [][NextFinance]_vars

\* The handlers that write the status ledgers (fees and payroll) over the one
\* store.
NextLedgers == NextFees \/ NextPayroll

SpecLedgers == Init /\ [][NextLedgers]_vars

\* --------------------------------------------------------- academics-service
NewEnrollment(student_id, course_code, campus_id) ==
    [student_id |-> student_id, course_code |-> course_code,
     campus_id |-> campus_id]

\* collection.find_one(doc!{"student_id", "course_code", "campus_id"}): the
\* _id of the first document the filter matches, 0 for None.
find_enrollment(coll, student_id, course_code, campus_id) ==
    LET matches == {i \in 1..Len(coll) :
                       /\ coll[i].student_id = student_id
                       /\ coll[i].course_code = course_code
                       /\ coll[i].campus_id = campus_id}
    IN  IF matches = {} THEN 0
        ELSE CHOOSE i \in matches : \A j \in matches : i <= j

\* create_enrollment up to its first store call, the "already enrolled" check.
create_enrollment_find(p, token, student_id, course_code) ==
    /\ CanBegin(p)
    /\ LET claims == extract_claims(token)
           rq == [token |-> token, student_id |-> student_id,
                  course_code |-> course_code]
           existing == find_enrollment(enrollments, student_id, course_code,
                                       claims.campus_id)
       IN  IF ~claims.ok
           THEN /\ Respond(p, "create_enrollment", [token |-> token], "Unauthorized")
                /\ UNCHANGED failures
           ELSE \/ /\ StoreFails
                   /\ Respond(p, "create_enrollment", rq, "InternalServerError")
                \/ /\ UNCHANGED failures
                   /\ IF existing # 0
                      THEN Respond(p, "create_enrollment", rq, "AlreadyEnrolled")
                      ELSE Continue(p, "create_enrollment", rq,
                                    [campus_id |-> claims.campus_id], "insert_one")
    /\ UNCHANGED <<database, registry, update_filter, now, credited>>

\* create_enrollment: collection.insert_one(new_enrollment) and the response.
create_enrollment_insert(p) ==
    /\ pc[p] = "insert_one" /\ op[p] = "create_enrollment"
    /\ UNCHANGED served
    /\ \/ /\ enrollments' = Append(enrollments,
                 NewEnrollment(req[p].student_id, req[p].course_code,
                               local[p].campus_id))
          /\ Respond(p, op[p], req[p], "Ok")
          /\ UNCHANGED failures
       \/ /\ StoreFails
          /\ Respond(p, op[p], req[p], "InternalServerError")
          /\ UNCHANGED enrollments
    /\ UNCHANGED <<database, users, update_filter, now, credited>>

get_enrollments(p, token) == list_by_campus(p, token, "get_enrollments", enrollments)

\* The enrollment routes of the academics service.
NextAcademics ==
    \E p \in Workers :
        \/ \E token \in Tokens, student_id \in Students, course_code \in Courses :
               create_enrollment_find(p, token, student_id, course_code)
        \/ create_enrollment_insert(p)
        \/ \E token \in Tokens : get_enrollments(p, token)

SpecAcademics == Init /\ [][NextAcademics]_vars

\* -------------------------------------------------------------- auth-service
\* bcrypt's hash(password, DEFAULT_COST): Err for a password it rejects,
\* otherwise a hash that verify() matches against that password alone.
Hash(password) ==
    IF password = "nul"
    THEN [ok |-> FALSE, hash |-> <<>>]
    ELSE [ok |-> TRUE, hash |-> <<"bcrypt", password>>]

NewUser(username, password_hash, campus_id) ==
    [username |-> username, password_hash |-> password_hash,
     campus_id |-> campus_id]

\* collection.find_one(doc!{"username": username}): the _id of the first
\* document with the username, 0 for None.
find_user(coll, username) ==
    LET matches == {i \in 1..Len(coll) : coll[i].username = username}
    IN  IF matches = {} THEN 0
        ELSE CHOOSE i \in matches : \A j \in matches : i <= j

\* register up to its first store call, the "Username already exists" check,
\* and the hash of the password.
register_find(p, username, password, campus_id) ==
    /\ CanBegin(p)
    /\ LET rq == [token |-> "-", username |-> username, password |-> password,
                  campus_id |-> campus_id]
           existing_user == find_user(users, username)
           password_hash == Hash(password)
       IN  \/ /\ StoreFails
              /\ Respond(p, "register", rq, "InternalServerError")
           \/ /\ UNCHANGED failures
              /\ IF existing_user # 0
                 THEN Respond(p, "register", rq, "UsernameExists")
                 ELSE IF ~password_hash.ok
                 THEN Respond(p, "register", rq, "InternalServerError")
                 ELSE Continue(p, "register", rq,
                               [campus_id |-> campus_id,
                                password_hash |-> password_hash.hash],
                               "insert_one")
    /\ UNCHANGED <<database, registry, update_filter, now, credited>>

\* register: collection.insert_one(new_user) and the response.
register_insert(p) ==
    /\ pc[p] = "insert_one" /\ op[p] = "register"
    /\ UNCHANGED served
    /\ \/ /\ users' = Append(users,
                 NewUser(req[p].username, local[p].password_hash, req[p].campus_id))
          /\ Respond(p, op[p], req[p], "Ok")
          /\ UNCHANGED failures
       \/ /\ StoreFails
          /\ Respond(p, op[p], req[p], "InternalServerError")
          /\ UNCHANGED users
    /\ UNCHANGED <<database, enrollments, update_filter, now, credited>>

\* login: the user by username, the password against the stored hash, and a
\* token that carries the user's campus_id.
login(p, username, password) ==
    /\ CanBegin(p)
    /\ LET rq == [token |-> "-", username |-> username, password |-> password]
           user == find_user(users, username)
       IN  \/ /\ StoreFails
              /\ Respond(p, "login", rq, "InternalServerError")
           \/ /\ UNCHANGED failures
              /\ IF user = 0
                 THEN Respond(p, "login", rq, "Unauthorized")
                 ELSE IF ~Hash(password).ok
                 THEN Respond(p, "login", rq, "InternalServerError")
                 ELSE IF Hash(password).hash # users[user].password_hash
                 THEN Respond(p, "login", rq, "Unauthorized")
                 ELSE RespondBody(p, "login", rq, "Ok",
                                  [token |-> users[user].campus_id])
    /\ UNCHANGED <<database, registry, update_filter, now, credited>>

\* validate_token: the bearer token decoded, no store call.
validate_token(p, token) ==
    /\ CanBegin(p)
    /\ IF extract_claims(token).ok
       THEN Respond(p, "validate_token", [token |-> token], "Ok")
       ELSE Respond(p, "validate_token", [token |-> token], "Unauthorized")
    /\ UNCHANGED <<database, registry, update_filter, now, credited, failures>>

NextAuth ==
    \E p \in Workers :
        \/ \E username \in Usernames, password \in Passwords, campus_id \in Campuses :
               register_find(p, username, password, campus_id)
        \/ register_insert(p)
        \/ \E username \in Usernames, password \in Passwords :
               login(p, username, password)
        \/ \E token \in Tokens : validate_token(p, token)

SpecAuth == Init /\ [][NextAuth]_vars

\* All four services over the one store, at one instant of the clock, for the
\* requests that follow an unauthenticated one (which worker 1 answered 401
\* and which changed nothing).
InitAll ==
    /\ rooms = <<>>
    /\ room_allocations = <<>>
    /\ books = <<>>
    /\ book_issues = <<>>
    /\ leave_requests = <<>>
    /\ maintenance_requests = <<>>
    /\ faculty = <<>>
    /\ payroll = <<>>
    /\ fees = <<>>
    /\ payments = <<>>
    /\ invoices = <<>>
    /\ enrollments = <<>>
    /\ users = <<>>
    /\ update_filter = {}
    /\ now = 0
    /\ pc = [p \in Workers |-> IF p = 1 THEN "done" ELSE "idle"]
    /\ op = [p \in Workers |-> IF p = 1 THEN "create_room" ELSE "-"]
    /\ req = [p \in Workers |-> IF p = 1 THEN [token |-> "invalid"] ELSE NoReq]
    /\ local = [p \in Workers |-> NoLocal]
    /\ result = [p \in Workers |-> IF p = 1 THEN "Unauthorized" ELSE "-"]
    /\ body = [p \in Workers |-> NoBody]
    /\ round_trips = [p \in Workers |-> 0]
    /\ served = 1
    /\ failures = 0
    /\ credited = <<>>

\* The list handlers of the four services.
NextReads ==
    \E p \in Workers : \E token \in Tokens :
        \/ get_rooms(p, token)
        \/ get_allocations(p, token)
        \/ get_maintenance_requests(p, token)
        \/ get_books(p, token)
        \/ get_issues(p, token)
        \/ get_fees(p, token)
        \/ get_payments(p, token)
        \/ get_invoices(p, token)
        \/ get_faculty(p, token)
        \/ get_leave_requests(p, token)
        \/ get_payroll(p, token)

NextAll == NextHostel \/ NextBooks \/ NextFinance \/ NextHR

\* Every handler of the four services that takes a credential.
NextHandlers == NextAll \/ NextMaintenance \/ NextReads

SpecHandlers == InitAll /\ [][NextHandlers]_vars

SpecAll == InitAll /\ [][NextAll]_vars

\* ==================================================================== claims
\* The step is worker p accepting a request (the handler's first action).
Accepts(p) ==
    /\ ~InFlight(p)
    /\ \A q \in Workers : q < p => InFlight(q)
    /\ served' = served + 1

\* The step is a later action of the handler worker p runs.
Advances(p) == InFlight(p) /\ pc'[p] # pc[p]

Alone(p) == \A q \in Workers : q # p => ~InFlight(q)

RoomIds == 1..Len(rooms)
BookIds == 1..Len(books)
IssueIds == 1..Len(book_issues)
LeaveIds == 1..Len(leave_requests)

ActiveAllocations(r) ==
    {a \in 1..Len(room_allocations) :
        room_allocations[a].room_id = r /\ room_allocations[a].status = "active"}

IssuedRecords(b) ==
    {i \in IssueIds : book_issues[i].book_id = b /\ book_issues[i].status = "issued"}

TerminalStatuses == {"returned", "returned_with_fine"}

\* ---------------------------------------------------------------------- C1
\* C1: for every room (registered with a capacity of at least 1), in every
\* reachable state under any interleaving of allocate_room requests, occupied
\* is never greater than capacity and never negative.
C1_OccupiedWithinCapacity ==
    \A r \in RoomIds :
        rooms[r].capacity >= 1 =>
            rooms[r].occupied >= 0 /\ rooms[r].occupied <= rooms[r].capacity

\* ---------------------------------------------------------------------- C2
\* The workers whose allocate_room request on room r was answered "Ok" or
\* "Room is full".
AllocatorsOf(r) ==
    {p \in Workers : /\ pc[p] = "done" /\ op[p] = "allocate_room"
                     /\ result[p] \in {"Ok", "RoomFull"}
                     /\ req[p].room_id = r}

\* C2: a room of capacity C is created with occupied 0 and N >= C
\* allocate_room requests (of different students) run against it, in any
\* interleaving, no store call failing: once all have returned, exactly C
\* were answered Ok, exactly N-C "Room is full", and the room has exactly C
\* allocation records.
C2_ExactlyCapacitySucceed ==
    \A r \in RoomIds :
        LET N == Cardinality(AllocatorsOf(r))
            C == rooms[r].capacity
        IN  ( /\ Quiescent /\ failures = 0
              /\ Len(rooms) = 1 /\ served = N + 1
              /\ C >= 1 /\ N >= C
              /\ \A p, q \in AllocatorsOf(r) :
                     p # q => req[p].student_id # req[q].student_id )
            => /\ Cardinality({p \in AllocatorsOf(r) : result[p] = "Ok"}) = C
               /\ Cardinality({p \in AllocatorsOf(r) : result[p] = "RoomFull"}) = N - C
               /\ Cardinality(ActiveAllocations(r)) = C

\* ---------------------------------------------------------------------- C3
\* C3: for every book (registered with at least 1 copy), in every reachable
\* state under any interleaving of issue_book requests, available_copies is
\* never negative and the 'issued' records of the book never outnumber
\* total_copies.
C3_IssuedWithinCopies ==
    \A b \in BookIds :
        books[b].total_copies >= 1 =>
            /\ books[b].available_copies >= 0
            /\ Cardinality(IssuedRecords(b)) <= books[b].total_copies

\* ---------------------------------------------------------------------- C4
\* C4: release is idempotent: a return_book that read its issue record in a
\* terminal status changes neither the record nor the book and succeeds, and
\* no issue record ever has available_copies incremented for it twice.
C4_ReleaseIdempotent ==
    [][ /\ \A p \in Workers :
              ( /\ Advances(p) /\ op[p] = "return_book"
                /\ local[p].issue.status \in TerminalStatuses )
              => /\ book_issues' = book_issues
                 /\ books' = books
                 /\ (pc'[p] = "done" => result'[p] \in {"Ok", "InternalServerError"})
        /\ \A i \in 1..Len(credited') : credited'[i] <= 1 ]_vars

\* ---------------------------------------------------------------------- C5
\* C5: allocation is all-or-nothing: whenever no request is in flight (each
\* has finished, with success or with a store error at any step), every
\* room's occupied equals the number of its 'active' allocation records and
\* every book's total_copies - available_copies equals the number of its
\* 'issued' records.
C5_AllocationAllOrNothing ==
    Quiescent =>
        /\ \A r \in RoomIds :
               rooms[r].occupied = Cardinality(ActiveAllocations(r))
        /\ \A b \in BookIds :
               books[b].total_copies - books[b].available_copies
                   = Cardinality(IssuedRecords(b))

\* ---------------------------------------------------------------------- C6
\* C6: an allocate_room for a (student, room) that already has an 'active'
\* allocation is refused, so no student ever holds two active allocations on
\* the same room.
C6_NoDuplicateAllocation ==
    \A a, b \in 1..Len(room_allocations) :
        ( /\ a # b
          /\ room_allocations[a].status = "active"
          /\ room_allocations[b].status = "active"
          /\ room_allocations[a].room_id = room_allocations[b].room_id )
        => room_allocations[a].student_id # room_allocations[b].student_id

\* ---------------------------------------------------------------------- C7
\* The step is worker p accepting a request for handler o with a token the
\* validator accepts, and the store call of the step does not fail.
Reads(p, o) ==
    /\ Accepts(p) /\ op'[p] = o
    /\ extract_claims(req'[p].token).ok
    /\ failures' = failures

\* C7: with no other request in flight, allocate_room on a room (of the
\* caller's campus) whose occupied >= capacity is answered "Room is full",
\* and issue_book on a book whose available_copies <= 0 is answered "Book not
\* available"; the request ends there, no record is inserted and no counter
\* changes.
C7_FullPoolRefused ==
    [][ \A p \in Workers :
          /\ ( /\ Reads(p, "allocate_room") /\ Alone(p)
               /\ parse_str(req'[p].room_id).ok
               /\ LET r == find_one(rooms, req'[p].room_id, req'[p].token)
                  IN  r # 0 /\ rooms[r].occupied >= rooms[r].capacity )
             => /\ pc'[p] = "done" /\ result'[p] = "RoomFull"
                /\ rooms' = rooms /\ room_allocations' = room_allocations
          /\ ( /\ Reads(p, "issue_book") /\ Alone(p)
               /\ parse_str(req'[p].book_id).ok
               /\ LET b == find_one(books, req'[p].book_id, req'[p].token)
                  IN  b # 0 /\ books[b].available_copies <= 0 )
             => /\ pc'[p] = "done" /\ result'[p] = "NotAvailable"
                /\ books' = books /\ book_issues' = book_issues ]_vars

\* A request on a room that filled up through earlier allocations has been
\* answered "Room is full".
C7_Witness ==
    \E p \in Workers :
        /\ Quiescent
        /\ pc[p] = "done" /\ op[p] = "allocate_room" /\ result[p] = "RoomFull"
        /\ req[p].room_id \in RoomIds
        /\ rooms[req[p].room_id].capacity >= 1
        /\ rooms[req[p].room_id].occupied = rooms[req[p].room_id].capacity

\* ---------------------------------------------------------------------- C8
\* C8: a book_issues record is mutated at most once: once its status is
\* terminal, its status, return_date and fine_amount never change again.
C8_IssueRecordImmutableOnceTerminal ==
    [][ \A i \in IssueIds :
          book_issues[i].status \in TerminalStatuses
          => /\ book_issues'[i].status = book_issues[i].status
             /\ book_issues'[i].return_date = book_issues[i].return_date
             /\ book_issues'[i].fine_amount = book_issues[i].fine_amount ]_vars

\* ---------------------------------------------------------------------- C9
\* C9: release is all-or-nothing: whenever no request is in flight (each
\* return_book has finished, with success or with a store error at either
\* update), an issue record is terminal if and only if available_copies has
\* been incremented for it.
C9_ReleaseAllOrNothing ==
    Quiescent =>
        \A i \in IssueIds :
            book_issues[i].status \in TerminalStatuses <=> credited[i] >= 1

\* --------------------------------------------------------------------- C10
LeaveGraphStatuses == {"pending", "approved", "rejected"}
LeaveTerminalStatuses == {"approved", "rejected"}

\* C10: approved and rejected are terminal: approve_leave naming a leave
\* request of the caller's campus that is 'approved' or 'rejected', with
\* another status of the graph as its target, is answered InvalidTransition
\* and the stored status is unchanged.
C10_LeaveTerminalStatusesFinal ==
    [][ \A p \in Workers :
          ( /\ Reads(p, "approve_leave")
            /\ parse_str(req'[p].request_id).ok
            /\ LET l == find_one(leave_requests, req'[p].request_id, req'[p].token)
               IN  /\ l # 0
                   /\ leave_requests[l].status \in LeaveTerminalStatuses
                   /\ req'[p].status \in LeaveGraphStatuses
                   /\ req'[p].status # leave_requests[l].status )
          => /\ result'[p] = "InvalidTransition"
             /\ leave_requests' = leave_requests ]_vars

\* --------------------------------------------------------------------- C11
\* C11: in every reachable state the status of every leave_requests record
\* is one of 'pending', 'approved', 'rejected' (an approve_leave whose target
\* is outside the graph stores nothing).
C11_LeaveStatusInGraph ==
    \A l \in LeaveIds : leave_requests[l].status \in LeaveGraphStatuses

\* --------------------------------------------------------------------- C12
\* C12: an approve_leave with target status S naming a leave request of the
\* caller's campus whose status is already S is answered with success and
\* leaves every leave request as it was (hence also when it is repeated).
C12_TransitionIdempotent ==
    [][ \A p \in Workers :
          ( /\ Reads(p, "approve_leave")
            /\ parse_str(req'[p].request_id).ok
            /\ LET l == find_one(leave_requests, req'[p].request_id, req'[p].token)
               IN  /\ l # 0
                   /\ leave_requests[l].status = req'[p].status )
          => /\ result'[p] = "Ok"
             /\ leave_requests' = leave_requests ]_vars

\* A fresh ('pending') leave request has been the target of an approve_leave
\* with target 'pending', which succeeded.
C12_Witness ==
    \E p \in Workers :
        /\ pc[p] = "done" /\ op[p] = "approve_leave" /\ result[p] = "Ok"
        /\ served = 2
        /\ req[p].request_id = 1 /\ req[p].status = "pending"
        /\ leave_requests = <<NewLeaveRequest("e1", req[p].token)>>

\* --------------------------------------------------------------------- C13
\* C13: an approve_leave whose request_id names no leave request, or one of
\* another campus, is answered NotFound and leaves every leave request
\* unchanged.
C13_TransitionNotFound ==
    [][ \A p \in Workers :
          ( /\ Reads(p, "approve_leave")
            /\ parse_str(req'[p].request_id).ok
            /\ \/ req'[p].request_id \notin LeaveIds
               \/ leave_requests[req'[p].request_id].campus_id # req'[p].token )
          => /\ result'[p] = "NotFound"
             /\ leave_requests' = leave_requests ]_vars

\* --------------------------------------------------------------------- C14
FeeIds == 1..Len(fees)
PaymentIds == 1..Len(payments)
PayrollIds == 1..Len(payroll)

\* The step ends the request worker p serves with handler o.
Finishes(p, o) ==
    /\ Accepts(p) \/ Advances(p)
    /\ pc'[p] = "done" /\ op'[p] = o

\* The payment of the create_payment that worker p finishes in this step is in
\* the store: inserted by this step, or by the handler's earlier insert_one
\* (no handler removes a payment).
PaymentPersisted(p) ==
    IF Accepts(p) THEN Len(payments') = Len(payments) + 1 ELSE TRUE

\* The fee the request of worker p names is moved to 'paid' by this step.
FeeSettled(p) ==
    LET f == find_one(fees, req'[p].fee_id, req'[p].token)
    IN  /\ f # 0
        /\ fees[f].status # "paid"
        /\ fees'[f].status = "paid"

\* C14: fee settlement is atomic: when a create_payment of an authenticated
\* caller finishes in any way (success, a store error at either step, or the
\* rejection of a malformed fee_id), its payment record is persisted if and
\* only if the fee it names was moved to 'paid' by it.  (Stated for a fee_id
\* that is malformed or names a 'pending' fee of the caller's campus.)
C14_SettlementAtomic ==
    [][ \A p \in Workers :
          ( /\ Finishes(p, "create_payment")
            /\ extract_claims(req'[p].token).ok
            /\ \/ ~parse_str(req'[p].fee_id).ok
               \/ LET f == find_one(fees, req'[p].fee_id, req'[p].token)
                  IN  f # 0 /\ fees[f].status = "pending" )
          => (PaymentPersisted(p) <=> FeeSettled(p)) ]_vars

\* --------------------------------------------------------------------- C15
\* C15: a create_payment whose fee_id names no fee, or a fee of another
\* campus, is answered NotFound (the same in both cases), inserts no payment
\* and changes no fee.
C15_PaymentNotFound ==
    [][ \A p \in Workers :
          ( /\ Reads(p, "create_payment")
            /\ parse_str(req'[p].fee_id).ok
            /\ \/ req'[p].fee_id \notin FeeIds
               \/ fees[req'[p].fee_id].campus_id # req'[p].token )
          => /\ result'[p] = "NotFound"
             /\ payments' = payments
             /\ fees' = fees ]_vars

\* --------------------------------------------------------------------- C16
\* C16: every change of a fee's status is from 'pending' to 'paid' (so a paid
\* fee stays paid); a payroll record's payment_status is never other than
\* 'pending' or 'paid' and never moves from 'paid' back to 'pending'.
C16_LedgerStatusGraphs ==
    [][ /\ \A f \in FeeIds :
              /\ f <= Len(fees')
              /\ fees'[f].status # fees[f].status
                     => fees[f].status = "pending" /\ fees'[f].status = "paid"
        /\ \A k \in 1..Len(payroll') :
              payroll'[k].payment_status \in {"pending", "paid"}
        /\ \A k \in PayrollIds :
              /\ k <= Len(payroll')
              /\ payroll[k].payment_status = "paid"
                     => payroll'[k].payment_status # "pending" ]_vars

\* A fee has been settled and a payroll record has been created.
C16_Witness ==
    /\ \E f \in FeeIds : fees[f].status = "paid"
    /\ \E k \in PayrollIds : payroll[k].payment_status = "pending"

\* --------------------------------------------------------------------- C17
\* C17: whenever create_payment answers success for a fee_id naming an
\* existing fee of the caller's campus, that fee is 'paid' in the state of the
\* response, and a fee that is 'paid' is 'paid' in every later state.
C17_SettledFeeStaysPaid ==
    [][ /\ \A p \in Workers :
              ( /\ Finishes(p, "create_payment")
                /\ result'[p] = "Ok"
                /\ find_one(fees, req'[p].fee_id, req'[p].token) # 0 )
              => fees'[req'[p].fee_id].status = "paid"
        /\ \A f \in FeeIds :
              fees[f].status = "paid" => f <= Len(fees') /\ fees'[f].status = "paid" ]_vars

\* A create_payment naming a fee of the caller's campus has answered success.
C17_Witness ==
    \E p \in Workers :
        /\ pc[p] = "done" /\ op[p] = "create_payment" /\ result[p] = "Ok"
        /\ find_one(fees, req[p].fee_id, req[p].token) # 0
        /\ fees[req[p].fee_id].status = "paid"

\* --------------------------------------------------------------------- C18
\* The id names no document of the caller's campus: it names none at all, or
\* one of another campus.
NotOfCampus(coll, oid, campus_id) ==
    \/ oid \notin 1..Len(coll)
    \/ coll[oid].campus_id # campus_id

\* The request worker p accepted ends at once with NotFound and no record of
\* any campus changes.
RefusedNotFound(p) ==
    /\ pc'[p] = "done" /\ result'[p] = "NotFound"
    /\ store' = store

\* C18: allocate_room, issue_book and return_book called with a (well-formed)
\* id that exists but belongs to another campus are answered NotFound, as for
\* an id that exists nowhere, and leave every record unchanged.
C18_AllocatorTenantIsolation ==
    [][ \A p \in Workers :
          /\ ( /\ Reads(p, "allocate_room")
               /\ parse_str(req'[p].room_id).ok
               /\ NotOfCampus(rooms, req'[p].room_id, req'[p].token) )
             => RefusedNotFound(p)
          /\ ( /\ Reads(p, "issue_book")
               /\ parse_str(req'[p].book_id).ok
               /\ NotOfCampus(books, req'[p].book_id, req'[p].token) )
             => RefusedNotFound(p)
          /\ ( /\ Reads(p, "return_book")
               /\ parse_str(req'[p].issue_id).ok
               /\ NotOfCampus(book_issues, req'[p].issue_id, req'[p].token) )
             => RefusedNotFound(p) ]_vars

\* An allocate_room naming a room of another campus has been answered
\* NotFound.
C18_Witness ==
    \E p \in Workers :
        /\ pc[p] = "done" /\ op[p] = "allocate_room" /\ result[p] = "NotFound"
        /\ req[p].room_id \in RoomIds
        /\ rooms[req[p].room_id].campus_id # req[p].token

\* --------------------------------------------------------------------- C19
\* C19: every update_one a mutation issues (the room counter, the book
\* counter, the issue record, the fee, the leave request) carries the
\* caller's campus id in its filter, so that it writes only a record of the
\* caller's campus.
C19_WritesNameCampus ==
    update_filter # {} => "campus_id" \in update_filter

\* --------------------------------------------------------------------- C20
\* Every document of old is in new with the campus_id it had.
KeepsCampus(old, new) ==
    /\ Len(new) >= Len(old)
    /\ \A i \in 1..Len(old) : new[i].campus_id = old[i].campus_id

\* A document the step inserts carries the campus of the validated claims of
\* the caller whose handler took the step.
StampedByCaller(old, new) ==
    Len(new) > Len(old) =>
        /\ Len(new) = Len(old) + 1
        /\ \E p \in Workers :
              /\ Accepts(p) \/ Advances(p)
              /\ extract_claims(req'[p].token).ok
              /\ new[Len(new)].campus_id = extract_claims(req'[p].token).campus_id

\* C20: every record (room, allocation, book, issue, fee, payment, invoice,
\* leave request, payroll, faculty) gets its campus_id from the creating
\* caller's validated claims when it is inserted, and no operation changes the
\* campus_id of an existing record.
C20_CampusStampedOnceFromClaims ==
    [][ /\ KeepsCampus(rooms, rooms') /\ StampedByCaller(rooms, rooms')
        /\ KeepsCampus(room_allocations, room_allocations')
        /\ StampedByCaller(room_allocations, room_allocations')
        /\ KeepsCampus(books, books') /\ StampedByCaller(books, books')
        /\ KeepsCampus(book_issues, book_issues')
        /\ StampedByCaller(book_issues, book_issues')
        /\ KeepsCampus(fees, fees') /\ StampedByCaller(fees, fees')
        /\ KeepsCampus(payments, payments') /\ StampedByCaller(payments, payments')
        /\ KeepsCampus(invoices, invoices') /\ StampedByCaller(invoices, invoices')
        /\ KeepsCampus(leave_requests, leave_requests')
        /\ StampedByCaller(leave_requests, leave_requests')
        /\ KeepsCampus(payroll, payroll') /\ StampedByCaller(payroll, payroll')
        /\ KeepsCampus(faculty, faculty') /\ StampedByCaller(faculty, faculty') ]_vars

\* A room created by a caller of campusB has since been written by an
\* allocate_room.
C20_Witness ==
    \E r \in RoomIds :
        /\ rooms[r].campus_id = "campusB"
        /\ rooms[r].occupied >= 1
        /\ \E a \in 1..Len(room_allocations) :
              room_allocations[a].room_id = r /\ room_allocations[a].campus_id = "campusB"

\* --------------------------------------------------------------------- C21
\* fine is FinePerDay's 5 for each whole day in the time from due to ret
\* (a started day is not charged), and 0 when ret is not after due.
FineIsFlooredDays(fine, due, ret) ==
    /\ fine >= 0
    /\ ret <= due => fine = 0
    /\ ret > due =>
          \E d \in 0..(ret - due) :
              /\ d * TicksPerDay <= ret - due
              /\ ret - due < (d + 1) * TicksPerDay
              /\ fine = 5 * d
    /\ ret = due + 3 * TicksPerDay => fine = 15
    /\ ret = due - TicksPerDay => fine = 0

\* C21: the fine return_book stores and the fine it returns are 5 times the
\* whole days by which the return time exceeds due_date (fractional days
\* floored) and 0 when the return is not after due_date: 0 at due, 15 at due
\* + 3 days, 0 at due - 1 day, never negative.
C21_FineIsFiveTimesWholeDaysLate ==
    /\ [](\A i \in IssueIds :
            book_issues[i].return_date.some =>
                FineIsFlooredDays(book_issues[i].fine_amount,
                                  book_issues[i].due_date,
                                  book_issues[i].return_date.at))
    /\ [][ \A p \in Workers :
             (Finishes(p, "return_book") /\ result'[p] = "Ok")
                 => FineIsFlooredDays(body'[p].fine_amount,
                                      local[p].issue.due_date,
                                      local[p].return_date) ]_vars

\* A loan has been returned three whole days late, with a fine of 15.
C21_Witness ==
    \E p \in Workers :
        /\ pc[p] = "done" /\ op[p] = "return_book" /\ result[p] = "Ok"
        /\ LET issue == book_issues[req[p].issue_id]
           IN  /\ issue.return_date.at = issue.due_date + 3 * TicksPerDay
               /\ issue.fine_amount = 15
               /\ body[p].fine_amount = 15

\* --------------------------------------------------------------------- C22
\* The faculty record a lookup by (employee_id, campus_id) finds: the first
\* that matches.
FacultyFound(f, employee_id, campus_id) ==
    /\ f \in 1..Len(faculty)
    /\ faculty[f].employee_id = employee_id /\ faculty[f].campus_id = campus_id
    /\ \A g \in 1..(f - 1) :
          ~(faculty[g].employee_id = employee_id /\ faculty[g].campus_id = campus_id)

\* C22: create_payroll stores and returns net_salary = basic_salary +
\* allowances - deductions, basic_salary being the salary of the faculty
\* record found for the employee; there is no floor at zero: a negative
\* result is stored and returned as it is and the request is not rejected.
C22_NetSalaryUnfloored ==
    [][ \A p \in Workers :
          /\ ( /\ Reads(p, "create_payroll")
               /\ \E f \in 1..Len(faculty) :
                     FacultyFound(f, req'[p].employee_id, req'[p].token) )
             => pc'[p] = "insert_one"
          /\ ( /\ Advances(p) /\ op[p] = "create_payroll"
               /\ failures' = failures )
             => /\ result'[p] = "Ok"
                /\ Len(payroll') = Len(payroll) + 1
                /\ \E f \in 1..Len(faculty) :
                      /\ FacultyFound(f, req[p].employee_id, req[p].token)
                      /\ payroll'[Len(payroll')].basic_salary = faculty[f].salary
                      /\ payroll'[Len(payroll')].net_salary =
                             faculty[f].salary + req[p].allowances - req[p].deductions
                      /\ body'[p].net_salary =
                             faculty[f].salary + req[p].allowances - req[p].deductions ]_vars

\* A payroll with a negative net salary has been stored and returned.
C22_Witness ==
    \E p \in Workers :
        /\ pc[p] = "done" /\ op[p] = "create_payroll" /\ result[p] = "Ok"
        /\ body[p].net_salary < 0
        /\ \E k \in PayrollIds :
              /\ payroll[k].net_salary = body[p].net_salary
              /\ payroll[k].deductions > payroll[k].basic_salary + payroll[k].allowances

\* --------------------------------------------------------------------- C23
InvoiceIds == 1..Len(invoices)

\* The sum of the first n amounts of items.
RECURSIVE SumOfFirst(_, _)
SumOfFirst(items, n) == IF n = 0 THEN 0 ELSE SumOfFirst(items, n - 1) + items[n]

\* C23: create_invoice stores total_amount equal to the sum of the amounts of
\* all items of the request (0 for an empty item list) and stores the items
\* unchanged.
C23_InvoiceTotalIsSumOfItems ==
    [][ \A p \in Workers :
          Reads(p, "create_invoice")
          => /\ Len(invoices') = Len(invoices) + 1
             /\ invoices'[Len(invoices')].items = req'[p].items
             /\ invoices'[Len(invoices')].total_amount =
                    SumOfFirst(req'[p].items, Len(req'[p].items))
             /\ req'[p].items = <<>> => invoices'[Len(invoices')].total_amount = 0 ]_vars

\* An invoice of MaxSummedItems items, each of the largest amount, and an
\* invoice of no items have been stored.
C23_Witness ==
    /\ \E k \in InvoiceIds :
          /\ Len(invoices[k].items) = MaxSummedItems
          /\ \A n \in 1..MaxSummedItems : invoices[k].items[n] = MaxAmount
          /\ invoices[k].total_amount = MaxSummedItems * MaxAmount
    /\ \E k \in InvoiceIds : invoices[k].items = <<>> /\ invoices[k].total_amount = 0

\* --------------------------------------------------------------------- C24
\* Worker 1 served every request, one after the other.
ServedInTurn == \A q \in Workers : q # 1 => pc[q] = "idle"

\* C24: client retries are safe.  A room was created, an allocate_room ended
\* with a store error, the client repeated the identical request and it
\* succeeded (three requests served in turn, one store call failed, every
\* allocation record is that of the request): the state is that of a single
\* failure-free execution, one allocation record and the counter incremented
\* once.
C24_RetryIsSafe ==
    ( /\ ServedInTurn
      /\ served = 3 /\ failures = 1
      /\ Len(rooms) = 1
      /\ pc[1] = "done" /\ op[1] = "allocate_room" /\ result[1] = "Ok"
      /\ \A a \in 1..Len(room_allocations) :
            room_allocations[a] =
                NewAllocation(req[1].student_id, req[1].room_id, req[1].token) )
    => /\ Len(room_allocations) = 1
       /\ rooms[req[1].room_id].occupied = 1

\* --------------------------------------------------------------------- C25
\* The document the step inserts into a collection (old, new before and
\* after) satisfies Initial.
InsertsOnly(old, new, Initial(_)) ==
    Len(new) > Len(old) => Initial(new[Len(new)])

\* C25: every record is created in its initial status: a room with occupied
\* 0, a book with available_copies = total_copies, an allocation 'active', an
\* issue 'issued' with fine_amount 0 and no return_date, a fee, a leave
\* request and a payroll 'pending'.
C25_CreatedInInitialStatus ==
    [][ /\ InsertsOnly(rooms, rooms', LAMBDA d : d.occupied = 0)
        /\ InsertsOnly(books, books', LAMBDA d : d.available_copies = d.total_copies)
        /\ InsertsOnly(room_allocations, room_allocations',
                       LAMBDA d : d.status = "active")
        /\ InsertsOnly(book_issues, book_issues',
                       LAMBDA d : /\ d.status = "issued"
                                  /\ d.fine_amount = 0
                                  /\ ~d.return_date.some)
        /\ InsertsOnly(fees, fees', LAMBDA d : d.status = "pending")
        /\ InsertsOnly(leave_requests, leave_requests',
                       LAMBDA d : d.status = "pending")
        /\ InsertsOnly(payroll, payroll',
                       LAMBDA d : d.payment_status = "pending") ]_vars

\* A book of two copies has been added and issued once, and a fee created.
C25_Witness ==
    /\ \E i \in IssueIds :
          /\ book_issues[i].status = "issued"
          /\ books[book_issues[i].book_id].total_copies = 2
    /\ \E f \in FeeIds : fees[f].status = "pending"

\* --------------------------------------------------------------------- C26
\* C26: every room registered by create_room has capacity >= 1 and every
\* book registered by add_book has total_copies >= 1.
C26_PoolCapacityAtLeastOne ==
    /\ \A r \in RoomIds : rooms[r].capacity >= 1
    /\ \A b \in BookIds : books[b].total_copies >= 1

\* --------------------------------------------------------------------- C27
ListHandlers ==
    {"get_rooms", "get_allocations", "get_books", "get_issues", "get_fees",
     "get_payments", "get_invoices", "get_leave_requests", "get_payroll",
     "get_faculty"}

\* The collection a list handler reads.
Listed(o) ==
    CASE o = "get_rooms" -> rooms
      [] o = "get_allocations" -> room_allocations
      [] o = "get_books" -> books
      [] o = "get_issues" -> book_issues
      [] o = "get_fees" -> fees
      [] o = "get_payments" -> payments
      [] o = "get_invoices" -> invoices
      [] o = "get_leave_requests" -> leave_requests
      [] o = "get_payroll" -> payroll
      [] o = "get_faculty" -> faculty

\* docs holds each document of coll of the campus once, as it is stored, and
\* nothing else.
ExactlyOfCampus(docs, coll, campus_id) ==
    /\ \A k \in 1..Len(docs) :
          /\ docs[k]._id \in 1..Len(coll)
          /\ docs[k].doc = coll[docs[k]._id]
          /\ docs[k].doc.campus_id = campus_id
    /\ \A i \in 1..Len(coll) :
          coll[i].campus_id = campus_id => \E k \in 1..Len(docs) : docs[k]._id = i
    /\ \A k, l \in 1..Len(docs) : docs[k]._id = docs[l]._id => k = l

\* C27: every list read that succeeds returns exactly the records whose
\* campus_id is the caller's: none of another campus, none of the caller's
\* omitted.
C27_ListsExactlyCallersCampus ==
    [][ \A p \in Workers : \A o \in ListHandlers :
          Reads(p, o)
          => /\ result'[p] = "Ok"
             /\ ExactlyOfCampus(body'[p], Listed(o), req'[p].token) ]_vars

\* get_rooms has returned the caller's room while the collection also holds a
\* room of the other campus.
C27_Witness ==
    \E p \in Workers :
        /\ pc[p] = "done" /\ op[p] = "get_rooms" /\ result[p] = "Ok"
        /\ Len(body[p]) = 1
        /\ \E r \in RoomIds : rooms[r].campus_id # req[p].token

MalformedId(p, o) ==
    CASE o = "allocate_room" -> ~parse_str(req'[p].room_id).ok
      [] o = "issue_book" -> ~parse_str(req'[p].book_id).ok
      [] o = "return_book" -> ~parse_str(req'[p].issue_id).ok
      [] o = "approve_leave" -> ~parse_str(req'[p].request_id).ok
      [] o = "create_payment" -> ~parse_str(req'[p].fee_id).ok

\* C29: a request with a malformed identifier (room_id, book_id, issue_id,
\* request_id, fee_id) is answered BadRequest and leaves the store exactly
\* as it was.
C29_MalformedIdTouchesNothing ==
    [][ \A p \in Workers :
          \A o \in {"allocate_room", "issue_book", "return_book", "approve_leave",
                    "create_payment"} :
              (Reads(p, o) /\ MalformedId(p, o))
              => /\ pc'[p] = "done" /\ result'[p] = "BadRequest"
                 /\ database' = database ]_vars

\* --------------------------------------------------------------------- C30
\* C30: allocate_room, issue_book, return_book, create_payment and
\* approve_leave make at most two store round-trips: a request that has
\* completed two is not about to make another.
C30_AtMostTwoRoundTrips ==
    \A p \in Workers :
        ( /\ InFlight(p)
          /\ op[p] \in {"allocate_room", "issue_book", "return_book",
                        "create_payment", "approve_leave"} )
        => round_trips[p] < 2

\* --------------------------------------------------------------------- C31
\* The step of a caller of campus campus_id leaves every document of another
\* campus as it was, and inserts none in another campus's name.
UntouchedForOthers(old, new, campus_id) ==
    /\ Len(new) >= Len(old)
    /\ \A i \in 1..Len(old) : old[i].campus_id # campus_id => new[i] = old[i]
    /\ \A i \in (Len(old) + 1)..Len(new) : new[i].campus_id = campus_id

\* C31: no step of a request made with one campus's identity changes any
\* field of a record of another campus (the room and book counters, updated
\* by _id alone, included), nor adds or removes one: the records of campus B
\* are the same whether or not the requests of campus A ran.
C31_CrossTenantNonInterference ==
    [][ \A p \in Workers :
          (Accepts(p) \/ Advances(p))
          => /\ UntouchedForOthers(rooms, rooms', req'[p].token)
             /\ UntouchedForOthers(room_allocations, room_allocations', req'[p].token)
             /\ UntouchedForOthers(maintenance_requests, maintenance_requests',
                                   req'[p].token)
             /\ UntouchedForOthers(books, books', req'[p].token)
             /\ UntouchedForOthers(book_issues, book_issues', req'[p].token)
             /\ UntouchedForOthers(fees, fees', req'[p].token)
             /\ UntouchedForOthers(payments, payments', req'[p].token)
             /\ UntouchedForOthers(invoices, invoices', req'[p].token)
             /\ UntouchedForOthers(leave_requests, leave_requests', req'[p].token)
             /\ UntouchedForOthers(payroll, payroll', req'[p].token)
             /\ UntouchedForOthers(faculty, faculty', req'[p].token) ]_vars

\* A caller of one campus has asked to return an issue of the other campus
\* and has been answered NotFound; the issue and its book are as they were.
C31_Witness ==
    \E p \in Workers :
        /\ pc[p] = "done" /\ op[p] = "return_book" /\ result[p] = "NotFound"
        /\ req[p].issue_id \in IssueIds
        /\ book_issues[req[p].issue_id].campus_id # req[p].token
        /\ book_issues[req[p].issue_id].status = "issued"
        /\ books[book_issues[req[p].issue_id].book_id].available_copies
               < books[book_issues[req[p].issue_id].book_id].total_copies

\* --------------------------------------------------------------------- C32
\* C32: book conservation: in every quiescent state (no request in flight,
\* no store call failed), for every book, available_copies plus the number
\* of its issue records with status 'issued' equals total_copies.
C32_BookConservation ==
    (Quiescent /\ failures = 0)
    => \A b \in BookIds :
          books[b].available_copies + Cardinality(IssuedRecords(b))
              = books[b].total_copies

\* --------------------------------------------------------------------- C33
\* C33: a returned issue record has status 'returned_with_fine' if and only
\* if its fine_amount is greater than 0, and status 'returned' if and only if
\* its fine_amount is 0 (a return overdue by less than one whole day
\* included).
C33_FineStatusMatchesFine ==
    \A i \in IssueIds :
        book_issues[i].status \in TerminalStatuses
        => /\ book_issues[i].status = "returned_with_fine"
                  <=> book_issues[i].fine_amount > 0
           /\ book_issues[i].status = "returned"
                  <=> book_issues[i].fine_amount = 0

\* --------------------------------------------------------------------- C34
\* The payment records that reference fee f.
PaymentsOf(f) == {n \in PaymentIds : payments[n].fee_id = f}

\* C34: no fee is settled twice: in every reachable state, for every fee, at
\* most one payment record references it (a create_payment against a fee
\* already 'paid' inserts no further payment).
C34_NoFeeSettledTwice ==
    \A f \in FeeIds : Cardinality(PaymentsOf(f)) <= 1

\* --------------------------------------------------------------------- C35
\* The room is full for allocate_room.
Full(room) == room.occupied >= room.capacity

\* C35: room occupancy only grows: no operation of the hostel service
\* decrements a room's occupied counter (nor changes its capacity) or changes
\* an allocation record after its insertion, so every allocation record has
\* status 'active' in every reachable state, a full room stays full, and an
\* allocate_room that reads a full room is answered "Room is full".
C35_OccupancyOnlyGrows ==
    /\ [](\A a \in 1..Len(room_allocations) : room_allocations[a].status = "active")
    /\ [][ /\ Len(rooms') >= Len(rooms)
           /\ \A r \in RoomIds :
                 /\ rooms'[r].occupied >= rooms[r].occupied
                 /\ rooms'[r].capacity = rooms[r].capacity
                 /\ Full(rooms[r]) => Full(rooms'[r])
           /\ Len(room_allocations') >= Len(room_allocations)
           /\ \A a \in 1..Len(room_allocations) :
                 room_allocations'[a] = room_allocations[a]
           /\ \A p \in Workers :
                 ( /\ Reads(p, "allocate_room")
                   /\ parse_str(req'[p].room_id).ok
                   /\ LET r == find_one(rooms, req'[p].room_id, req'[p].token)
                      IN  r # 0 /\ Full(rooms[r]) )
                 => pc'[p] = "done" /\ result'[p] = "RoomFull" ]_vars

\* A room of capacity 2 has been filled by two allocations, both still
\* 'active', and the allocate_room that came after was answered "Room is
\* full".
C35_Witness ==
    \E p \in Workers :
        /\ pc[p] = "done" /\ op[p] = "allocate_room" /\ result[p] = "RoomFull"
        /\ req[p].room_id \in RoomIds
        /\ rooms[req[p].room_id].capacity = 2
        /\ rooms[req[p].room_id].occupied = 2
        /\ Cardinality(ActiveAllocations(req[p].room_id)) = 2

\* --------------------------------------------------------------------- C36
\* C36: enrollment uniqueness: in every reachable state, under any
\* interleaving of create_enrollment requests, at most one enrollments record
\* exists for each (student_id, course_code, campus_id).
C36_EnrollmentUnique ==
    \A i, j \in 1..Len(enrollments) :
        ( /\ enrollments[i].student_id = enrollments[j].student_id
          /\ enrollments[i].course_code = enrollments[j].course_code
          /\ enrollments[i].campus_id = enrollments[j].campus_id )
        => i = j

\* --------------------------------------------------------------------- C37
\* C37: username uniqueness: in every reachable state, under any
\* interleaving of register requests, at most one users record exists per
\* username.
C37_UsernameUnique ==
    \A i, j \in 1..Len(users) :
        users[i].username = users[j].username => i = j

\* --------------------------------------------------------------------- C38
\* A faculty record of the payroll record's employee and campus, whose salary
\* is the record's basic_salary.
CopiedFromOwnCampus(record) ==
    \E f \in 1..Len(faculty) :
        /\ faculty[f].employee_id = record.employee_id
        /\ faculty[f].campus_id = record.campus_id
        /\ faculty[f].salary = record.basic_salary

\* C38: create_payroll inserts a payroll record only when a faculty record
\* with the requested employee_id exists in the caller's campus; otherwise it
\* returns NotFound and inserts nothing; every payroll record's campus_id is
\* the campus_id of the faculty record its basic_salary was copied from.
C38_PayrollOnlyForOwnFaculty ==
    /\ [](\A k \in PayrollIds : CopiedFromOwnCampus(payroll[k]))
    /\ [][ /\ \A p \in Workers :
                ( /\ Reads(p, "create_payroll")
                  /\ \A f \in 1..Len(faculty) :
                        ~( /\ faculty[f].employee_id = req'[p].employee_id
                           /\ faculty[f].campus_id = req'[p].token ) )
                => /\ pc'[p] = "done" /\ result'[p] = "NotFound"
                   /\ payroll' = payroll
           /\ Len(payroll') > Len(payroll)
              => \E p \in Workers :
                    /\ Advances(p) /\ op[p] = "create_payroll"
                    /\ payroll'[Len(payroll')].campus_id = req[p].token
                    /\ payroll'[Len(payroll')].employee_id = req[p].employee_id
                    /\ CopiedFromOwnCampus(payroll'[Len(payroll')]) ]_vars

\* A create_payroll for an employee who is on the faculty of the other
\* campus has been answered NotFound, and a payroll record of the
\* employee's own campus has been inserted.
C38_Witness ==
    /\ \E p \in Workers :
          /\ pc[p] = "done" /\ op[p] = "create_payroll" /\ result[p] = "NotFound"
          /\ \E f \in 1..Len(faculty) :
                /\ faculty[f].employee_id = req[p].employee_id
                /\ faculty[f].campus_id # req[p].token
    /\ payroll # <<>>

====
